---------------------------- MODULE Spec2Model ----------------------------
(***************************************************************************)
(* A model of simple-db's storage engine (src/src/lib.rs): the record      *)
(* codec (Row::serialize / Row::deserialize), the page store (Pager), the  *)
(* Table with its teardown (Drop), and the command executor                *)
(* (statement_command).  Bytes are 0..255, ids are u32, the backing file   *)
(* and every page buffer are sequences of bytes.                           *)
(*                                                                         *)
(* The schema constants are scaled down so that a table can be filled and  *)
(* reopened within the model: lib.rs sets USERID_SIZE = 31,                *)
(* EMAIL_SIZE = 254, PAGE_SIZE = 4096 and TABLE_MAX_PAGES = 100 (lines     *)
(* 61, 62, 70, 72).  ROW_SIZE, ROWS_PER_PAGE and TABLE_MAX_ROWS are        *)
(* derived from them exactly as lib.rs derives them, and every property    *)
(* is stated over the names, never over the numbers.                       *)
(***************************************************************************)
EXTENDS Integers, Sequences, FiniteSets, TLC

\* ------------------------------------------------------------------ bounds
USERID_SIZE == 2
EMAIL_SIZE == 3
PAGE_SIZE == 30
TABLE_MAX_PAGES == 2
\* How many times the backing file is opened in one behaviour.
MaxSessions == 3

\* --------------------------------------------------------------- constants
ROW_SIZE == EMAIL_SIZE + USERID_SIZE + 4 + 2
ROWS_PER_PAGE == PAGE_SIZE \div ROW_SIZE
TABLE_MAX_ROWS == ROWS_PER_PAGE * TABLE_MAX_PAGES

Byte == 0..255

\* A u32 is held as its two 16-bit halves, [hi, lo] for hi * 2^16 + lo: the
\* model checker's integers are 32-bit signed and cannot hold 2^32 - 1.
Half == 0..65535
U32(hi, lo) == [hi |-> hi, lo |-> lo]

Max(a, b) == IF a < b THEN b ELSE a

\* let x = value; body(x)
With(value, body(_)) == body(value)

\* n copies of byte b: vec![b; n], "a".repeat(n)
Rep(b, n) == [i \in 1..n |-> b]

\* dst[off .. off+len(src)] = src, for a slice that lies inside dst
\* (0-based offset off, as in the source).
CopyInto(dst, off, src) ==
    [i \in 1..Len(dst) |->
        IF i > off /\ i <= off + Len(src) THEN src[i - off] ELSE dst[i]]

\* &s[from .. to], 0-based and half-open as in the source.
Slice(s, from, to) == SubSeq(s, from + 1, to)

\* ------------------------------------------------------------------- codec
\* std::str::from_utf8: well-formed UTF-8 only (no overlong forms, no
\* surrogates, nothing above U+10FFFF).
IsCont(b) == b \in 128..191

RECURSIVE IsUtf8(_)
IsUtf8(s) ==
    IF s = <<>> THEN TRUE
    ELSE LET b == s[1]
             n == Len(s)
         IN  IF b < 128 THEN IsUtf8(Tail(s))
             ELSE IF b \in 194..223
                  THEN n >= 2 /\ IsCont(s[2]) /\ IsUtf8(SubSeq(s, 3, n))
             ELSE IF b \in 224..239
                  THEN /\ n >= 3
                       /\ s[2] \in (IF b = 224 THEN 160..191
                                    ELSE IF b = 237 THEN 128..159
                                    ELSE 128..191)
                       /\ IsCont(s[3])
                       /\ IsUtf8(SubSeq(s, 4, n))
             ELSE IF b \in 240..244
                  THEN /\ n >= 4
                       /\ s[2] \in (IF b = 240 THEN 144..191
                                    ELSE IF b = 244 THEN 128..143
                                    ELSE 128..191)
                       /\ IsCont(s[3])
                       /\ IsCont(s[4])
                       /\ IsUtf8(SubSeq(s, 5, n))
             ELSE FALSE

Row(id, user_id, email) == [id |-> id, user_id |-> user_id, email |-> email]

NoRow == Row(U32(0, 0), <<>>, <<>>)

\* Row::deserialize(data): the row, or a panic (a slice out of range, or
\* unwrap() of a from_utf8 error).  The xor of the four shifted bytes is
\* their sum, the shifted bytes having no bit in common.
deserialize(data) ==
    LET id == U32(data[3] + data[4] * 256, data[1] + data[2] * 256)
        user_id_len == data[5]
        email_len == data[6]
    IN  IF 6 + user_id_len > Len(data)
        THEN [panic |-> TRUE, row |-> NoRow]
        ELSE IF ~IsUtf8(Slice(data, 6, 6 + user_id_len))
        THEN [panic |-> TRUE, row |-> NoRow]
        ELSE IF 6 + user_id_len + email_len > Len(data)
        THEN [panic |-> TRUE, row |-> NoRow]
        ELSE IF ~IsUtf8(Slice(data, 6 + user_id_len,
                              6 + user_id_len + email_len))
        THEN [panic |-> TRUE, row |-> NoRow]
        ELSE [panic |-> FALSE,
              row |-> Row(id,
                          Slice(data, 6, 6 + user_id_len),
                          Slice(data, 6 + user_id_len,
                                6 + user_id_len + email_len))]

\* Mutant: the id written most significant byte first.
RowHeader_big_endian(row) ==
    << (row.id.hi \div 256) % 256,
       row.id.hi % 256,
       (row.id.lo \div 256) % 256,
       row.id.lo % 256,
       Len(row.user_id) % 256,
       Len(row.email) % 256 >>

\* The six header bytes serialize writes: the id little-endian ("as u8"
\* keeps the low eight bits), then the two lengths "as u8".
RowHeader(row) ==
    << row.id.lo % 256,
       (row.id.lo \div 256) % 256,
       row.id.hi % 256,
       (row.id.hi \div 256) % 256,
       Len(row.user_id) % 256,
       Len(row.email) % 256 >>

\* Row::serialize(&self, data), data a slice of at least six bytes: the
\* bytes of data afterwards, or a panic at the first slice that does not fit
\* (the bytes written before it stay written).
serialize(row, data) ==
    LET user_id_len == Len(row.user_id)
        email_len == Len(row.email)
        d1 == CopyInto(data, 0, RowHeader(row))
    IN  IF 6 + user_id_len > Len(data)
        THEN [panic |-> TRUE, data |-> d1]
        ELSE IF 6 + user_id_len + email_len > Len(data)
        THEN [panic |-> TRUE, data |-> CopyInto(d1, 6, row.user_id)]
        ELSE [panic |-> FALSE,
              data |-> CopyInto(CopyInto(d1, 6, row.user_id),
                                6 + user_id_len, row.email)]

\* -------------------------------------------------------------- page store
\* A Pager is [file_length, pages]; the file handle it owns is the variable
\* file.  Page page_num of the source is pages[page_num + 1]; a page of
\* length 0 is unloaded (vec![]).  Every operation returns, with its
\* result, panic ("none", or which panic ended it) and io_failed (an I/O
\* call returned an error).  io_ok = FALSE makes the first I/O call the
\* operation attempts fail.
NoPager == [file_length |-> 0, pages |-> <<>>]

\* Mutant: one page slot too many (0..=TABLE_MAX_PAGES).
Pager_open_one_more(f, io_ok) ==
    IF ~io_ok
    THEN [panic |-> "io", io_failed |-> TRUE, pager |-> NoPager]
    ELSE [panic |-> "none", io_failed |-> FALSE,
          pager |-> [file_length |-> Len(f),
                     pages |-> [i \in 1..(TABLE_MAX_PAGES + 1) |-> <<>>]]]

\* Pager::open: open (or create) the file, read its length, push
\* TABLE_MAX_PAGES empty pages.
Pager_open(f, io_ok) ==
    IF ~io_ok
    THEN [panic |-> "io", io_failed |-> TRUE, pager |-> NoPager]
    ELSE [panic |-> "none", io_failed |-> FALSE,
          pager |-> [file_length |-> Len(f),
                     pages |-> [i \in 1..TABLE_MAX_PAGES |-> <<>>]]]

\* Mutant: the page is allocated and the file never read.
LoadPage_no_read(f, file_length, page_num, io_ok) ==
    [panic |-> "none", io_failed |-> FALSE, page |-> Rep(0, PAGE_SIZE)]

\* Mutant: a page the file holds only in part is not read.
LoadPage_whole_pages_only(f, file_length, page_num, io_ok) ==
    LET zeroed == Rep(0, PAGE_SIZE)
        start_offset == page_num * PAGE_SIZE
    IN  IF file_length < start_offset + PAGE_SIZE
        THEN [panic |-> "none", io_failed |-> FALSE, page |-> zeroed]
        ELSE IF ~io_ok \/ start_offset + PAGE_SIZE > Len(f)
        THEN [panic |-> "io", io_failed |-> TRUE, page |-> zeroed]
        ELSE [panic |-> "none", io_failed |-> FALSE,
              page |-> CopyInto(zeroed, 0,
                                Slice(f, start_offset,
                                      start_offset + PAGE_SIZE))]

\* Mutant: the page read from the start of the file, the seek forgotten.
LoadPage_from_start(f, file_length, page_num, io_ok) ==
    LET zeroed == Rep(0, PAGE_SIZE)
        num_pages == file_length \div PAGE_SIZE
                     + (IF file_length % PAGE_SIZE # 0 THEN 1 ELSE 0)
        start_offset == page_num * PAGE_SIZE
        size == IF file_length < start_offset + PAGE_SIZE
                THEN file_length - start_offset
                ELSE PAGE_SIZE
    IN  IF ~(page_num < num_pages)
        THEN [panic |-> "none", io_failed |-> FALSE, page |-> zeroed]
        ELSE IF ~io_ok \/ size > Len(f)
        THEN [panic |-> "io", io_failed |-> TRUE, page |-> zeroed]
        ELSE [panic |-> "none", io_failed |-> FALSE,
              page |-> CopyInto(zeroed, 0, Slice(f, 0, size))]

\* Pager::get, lines 150-167: the buffer of a page on its first access.  It
\* is zero-filled, and when the page lies within the file (page_num <
\* ceil(file_length / PAGE_SIZE)) the file is read into it from
\* page_num * PAGE_SIZE on: a whole page, or what the file has left.
LoadPage(f, file_length, page_num, io_ok) ==
    LET zeroed == Rep(0, PAGE_SIZE)
        num_pages == file_length \div PAGE_SIZE
                     + (IF file_length % PAGE_SIZE # 0 THEN 1 ELSE 0)
        start_offset == page_num * PAGE_SIZE
        size == IF file_length < start_offset + PAGE_SIZE
                THEN file_length - start_offset
                ELSE PAGE_SIZE
    IN  IF ~(page_num < num_pages)
        THEN [panic |-> "none", io_failed |-> FALSE, page |-> zeroed]
        ELSE IF ~io_ok \/ start_offset + size > Len(f)
        \* seek or read_exact returned an error (read_exact does on a file
        \* shorter than file_length says)
        THEN [panic |-> "io", io_failed |-> TRUE, page |-> zeroed]
        ELSE [panic |-> "none", io_failed |-> FALSE,
              page |-> CopyInto(zeroed, 0,
                                Slice(f, start_offset, start_offset + size))]

\* Mutant: the page loaded from the file on every get.
Pager_get_reloads(pager, f, page_num, io_ok) ==
    IF page_num > TABLE_MAX_PAGES
    THEN [panic |-> "page_oob", io_failed |-> FALSE, pager |-> pager]
    ELSE IF page_num >= Len(pager.pages)
    THEN [panic |-> "index_oob", io_failed |-> FALSE, pager |-> pager]
    ELSE With(LoadPage(f, pager.file_length, page_num, io_ok), LAMBDA l :
            [panic |-> l.panic, io_failed |-> l.io_failed,
             pager |-> [pager EXCEPT !.pages[page_num + 1] = l.page]])

\* Pager::get(page_num): the pager afterwards; the buffer handed back is
\* pager.pages[page_num + 1].  Line 149 indexes the Vec, whose own bounds
\* check panics for page_num >= pages.len().
Pager_get(pager, f, page_num, io_ok) ==
    IF page_num > TABLE_MAX_PAGES
    THEN [panic |-> "page_oob", io_failed |-> FALSE, pager |-> pager]
    ELSE IF page_num >= Len(pager.pages)
    THEN [panic |-> "index_oob", io_failed |-> FALSE, pager |-> pager]
    ELSE IF Len(pager.pages[page_num + 1]) # 0
    THEN [panic |-> "none", io_failed |-> FALSE, pager |-> pager]
    ELSE With(LoadPage(f, pager.file_length, page_num, io_ok), LAMBDA l :
            [panic |-> l.panic, io_failed |-> l.io_failed,
             pager |-> [pager EXCEPT !.pages[page_num + 1] = l.page]])

\* seek(off) then write_all(bytes): the file afterwards.  Writing past the
\* end extends the file, a gap reading as zero; write_all of no bytes
\* writes nothing, so the seek alone leaves the file as it is.
WriteAt(f, off, bytes) ==
    IF bytes = <<>> THEN f
    ELSE [i \in 1..Max(Len(f), off + Len(bytes)) |->
            IF i > off /\ i <= off + Len(bytes) THEN bytes[i - off]
            ELSE IF i <= Len(f) THEN f[i]
            ELSE 0]

\* Mutant: the error of seek / write_all dropped instead of expect()ed.
Pager_flush_error_ignored(pager, f, page_num, size, io_ok) ==
    IF page_num >= Len(pager.pages)
    THEN [panic |-> "index_oob", io_failed |-> FALSE, file |-> f]
    ELSE IF Len(pager.pages[page_num + 1]) = 0
    THEN [panic |-> "none", io_failed |-> FALSE, file |-> f]
    ELSE IF ~io_ok
    THEN [panic |-> "none", io_failed |-> TRUE, file |-> f]
    ELSE IF size > Len(pager.pages[page_num + 1])
    THEN [panic |-> "slice_oob", io_failed |-> FALSE, file |-> f]
    ELSE [panic |-> "none", io_failed |-> FALSE,
          file |-> WriteAt(f, page_num * PAGE_SIZE,
                           Slice(pager.pages[page_num + 1], 0, size))]

\* Mutant: the seek to page_num * size.
Pager_flush_offset_by_size(pager, f, page_num, size, io_ok) ==
    IF page_num >= Len(pager.pages)
    THEN [panic |-> "index_oob", io_failed |-> FALSE, file |-> f]
    ELSE IF Len(pager.pages[page_num + 1]) = 0
    THEN [panic |-> "none", io_failed |-> FALSE, file |-> f]
    ELSE IF ~io_ok
    THEN [panic |-> "io", io_failed |-> TRUE, file |-> f]
    ELSE IF size > Len(pager.pages[page_num + 1])
    THEN [panic |-> "slice_oob", io_failed |-> FALSE, file |-> f]
    ELSE [panic |-> "none", io_failed |-> FALSE,
          file |-> WriteAt(f, page_num * size,
                           Slice(pager.pages[page_num + 1], 0, size))]

\* Mutant: a page that was never loaded is written out as zeros.
Pager_flush_unloaded_zeroed(pager, f, page_num, size, io_ok) ==
    IF page_num >= Len(pager.pages)
    THEN [panic |-> "index_oob", io_failed |-> FALSE, file |-> f]
    ELSE IF ~io_ok
    THEN [panic |-> "io", io_failed |-> TRUE, file |-> f]
    ELSE IF Len(pager.pages[page_num + 1]) = 0
    THEN [panic |-> "none", io_failed |-> FALSE,
          file |-> WriteAt(f, page_num * PAGE_SIZE, Rep(0, size))]
    ELSE IF size > Len(pager.pages[page_num + 1])
    THEN [panic |-> "slice_oob", io_failed |-> FALSE, file |-> f]
    ELSE [panic |-> "none", io_failed |-> FALSE,
          file |-> WriteAt(f, page_num * PAGE_SIZE,
                           Slice(pager.pages[page_num + 1], 0, size))]

\* Pager::flush(page_num, size): the file afterwards.
Pager_flush(pager, f, page_num, size, io_ok) ==
    IF page_num >= Len(pager.pages)
    THEN [panic |-> "index_oob", io_failed |-> FALSE, file |-> f]
    ELSE IF Len(pager.pages[page_num + 1]) = 0
    THEN [panic |-> "none", io_failed |-> FALSE, file |-> f]
    ELSE IF ~io_ok
    THEN [panic |-> "io", io_failed |-> TRUE, file |-> f]
    ELSE IF size > Len(pager.pages[page_num + 1])
    THEN [panic |-> "slice_oob", io_failed |-> FALSE, file |-> f]
    ELSE [panic |-> "none", io_failed |-> FALSE,
          file |-> WriteAt(f, page_num * PAGE_SIZE,
                           Slice(pager.pages[page_num + 1], 0, size))]

\* ------------------------------------------------------------------- table
\* Mutant: the formula lib.rs:193 keeps as a comment ("the tutorial is
\* wrong").
RowsInFile_tutorial(file_length) == file_length \div ROW_SIZE

\* Mutant: the rows of the partial trailing page forgotten.
RowsInFile_full_pages_only(file_length) ==
    (file_length \div PAGE_SIZE) * ROWS_PER_PAGE

\* Table::db_open, lines 194-197: num_rows recomputed from the file length.
RowsInFile(file_length) ==
    LET pages == file_length \div PAGE_SIZE
        additional == (file_length - (pages * PAGE_SIZE)) \div ROW_SIZE
    IN  additional + pages * ROWS_PER_PAGE

\* Table::db_open: the pager and num_rows.
db_open(f, io_ok) ==
    With(Pager_open(f, io_ok), LAMBDA p :
        [panic |-> p.panic, io_failed |-> p.io_failed,
         pager |-> p.pager, num_rows |-> RowsInFile(p.pager.file_length)])

\* Table::get_row, lines 214 and 218-219: where row row_num lives.
RowPage(row_num) == row_num \div ROWS_PER_PAGE

\* Mutant: the two length bytes left out of the stride.
RowByteOffset_overlapping(row_num) ==
    (row_num % ROWS_PER_PAGE) * (ROW_SIZE - 2)

\* Mutant: the row offset taken for the byte offset.
RowByteOffset_unscaled(row_num) == row_num % ROWS_PER_PAGE

RowByteOffset(row_num) == (row_num % ROWS_PER_PAGE) * ROW_SIZE

\* Table::get_row(row_num): Err(TableFull), or the slice
\* pages[page_num + 1][byte_offset .. byte_offset + ROW_SIZE] of the pager
\* afterwards.
get_row(pager, f, row_num, io_ok) ==
    LET page_num == RowPage(row_num)
        byte_offset == RowByteOffset(row_num)
    IN  IF page_num >= TABLE_MAX_PAGES
        THEN [err |-> "TableFull", panic |-> "none", io_failed |-> FALSE,
              pager |-> pager, page_num |-> page_num,
              byte_offset |-> byte_offset]
        ELSE With(Pager_get(pager, f, page_num, io_ok), LAMBDA g :
            IF g.panic # "none"
            THEN [err |-> "Panic", panic |-> g.panic,
                  io_failed |-> g.io_failed, pager |-> g.pager,
                  page_num |-> page_num, byte_offset |-> byte_offset]
            ELSE IF byte_offset + ROW_SIZE > Len(g.pager.pages[page_num + 1])
            THEN [err |-> "Panic", panic |-> "slice_oob",
                  io_failed |-> FALSE, pager |-> g.pager,
                  page_num |-> page_num, byte_offset |-> byte_offset]
            ELSE [err |-> "Ok", panic |-> "none", io_failed |-> FALSE,
                  pager |-> g.pager, page_num |-> page_num,
                  byte_offset |-> byte_offset])

\* The bytes of the slice get_row handed back.
RowSlice(pager, page_num, byte_offset) ==
    Slice(pager.pages[page_num + 1], byte_offset, byte_offset + ROW_SIZE)

\* Mutant: the row written at the start of its page.
SetRowSlice_page_start(pager, page_num, byte_offset, data) ==
    [pager EXCEPT !.pages[page_num + 1] = CopyInto(@, 0, data)]

\* The pager with that slice holding data.
SetRowSlice(pager, page_num, byte_offset, data) ==
    [pager EXCEPT !.pages[page_num + 1] = CopyInto(@, byte_offset, data)]

\* Table::add_row(row): the pager and num_rows afterwards.
add_row(pager, num_rows, f, row, io_ok) ==
    With(get_row(pager, f, num_rows, io_ok), LAMBDA r :
        IF r.err # "Ok"
        THEN [err |-> r.err, panic |-> r.panic, io_failed |-> r.io_failed,
              pager |-> r.pager, num_rows |-> num_rows]
        ELSE With(serialize(row, RowSlice(r.pager, r.page_num, r.byte_offset)),
                  LAMBDA s :
            IF s.panic
            THEN [err |-> "Panic", panic |-> "slice_oob", io_failed |-> FALSE,
                  pager |-> SetRowSlice(r.pager, r.page_num, r.byte_offset,
                                        s.data),
                  num_rows |-> num_rows]
            ELSE [err |-> "Ok", panic |-> "none", io_failed |-> FALSE,
                  pager |-> SetRowSlice(r.pager, r.page_num, r.byte_offset,
                                        s.data),
                  num_rows |-> num_rows + 1]))

\* The loop of Drop for Table::drop: flush(i, PAGE_SIZE) for i in
\* 0..full_pages, stopping at the first panic.
RECURSIVE FlushFullPages(_, _, _, _, _)
FlushFullPages(pager, f, i, full_pages, io_ok) ==
    IF i >= full_pages
    THEN [panic |-> "none", io_failed |-> FALSE, file |-> f]
    ELSE With(Pager_flush(pager, f, i, PAGE_SIZE, io_ok), LAMBDA w :
        IF w.panic # "none" THEN w
        ELSE FlushFullPages(pager, w.file, i + 1, full_pages, io_ok))

\* Mutant: the last page flushed whole.
PartialFlushSize_whole_page(additional_rows) == PAGE_SIZE

\* Drop for Table::drop, line 232: how much of the last page is flushed.
PartialFlushSize(additional_rows) == additional_rows * ROW_SIZE

\* Mutant: the page after the full ones flushed even when it has no row.
drop_always_flushes_last(pager, num_rows, f, io_ok) ==
    LET full_pages == num_rows \div ROWS_PER_PAGE
        additional_rows == num_rows % ROWS_PER_PAGE
    IN  With(FlushFullPages(pager, f, 0, full_pages, io_ok), LAMBDA full :
            IF full.panic # "none" THEN full
            ELSE Pager_flush(pager, full.file, full_pages,
                             PartialFlushSize(additional_rows), io_ok))

\* Drop for Table::drop: the file afterwards.
drop(pager, num_rows, f, io_ok) ==
    LET full_pages == num_rows \div ROWS_PER_PAGE
        additional_rows == num_rows % ROWS_PER_PAGE
    IN  With(FlushFullPages(pager, f, 0, full_pages, io_ok), LAMBDA full :
            IF full.panic # "none" THEN full
            ELSE IF additional_rows > 0
            THEN Pager_flush(pager, full.file, full_pages,
                             PartialFlushSize(additional_rows), io_ok)
            ELSE full)

\* ------------------------------------------------------- command executor
\* A command line is the sequence of its whitespace-separated tokens
\* (split_whitespace), each a sequence of UTF-8 bytes; the caller trims the
\* line, so the line starts with its first token.
StartsWith(s, prefix) ==
    Len(s) >= Len(prefix) /\ SubSeq(s, 1, Len(prefix)) = prefix

S_select == <<115, 101, 108, 101, 99, 116>>
S_insert == <<105, 110, 115, 101, 114, 116>>
S_delete == <<100, 101, 108, 101, 116, 101>>

InputStartsWith(input, word) == input # <<>> /\ StartsWith(input[1], word)

\* str::parse::<u32>: an optional '+', then one or more decimal digits whose
\* value fits in 32 bits; anything else (empty, '-', a letter, overflow) is
\* a ParseIntError.  acc * 10 + digit is computed on the two halves.
RECURSIVE ParseDigits(_, _)
ParseDigits(digits, acc) ==
    LET lo == acc.lo * 10 + (digits[1] - 48)
        hi == acc.hi * 10 + (lo \div 65536)
    IN  IF digits = <<>> THEN [ok |-> TRUE, value |-> acc]
        ELSE IF digits[1] \notin 48..57
        THEN [ok |-> FALSE, value |-> U32(0, 0)]
        ELSE IF hi > 65535 THEN [ok |-> FALSE, value |-> U32(0, 0)]
        ELSE ParseDigits(Tail(digits), U32(hi, lo % 65536))

ParseU32(tok) ==
    LET digits == IF tok # <<>> /\ tok[1] = 43 THEN Tail(tok) ELSE tok
    IN  IF digits = <<>> THEN [ok |-> FALSE, value |-> U32(0, 0)]
        ELSE ParseDigits(digits, U32(0, 0))

\* Mutant: the capacity check off by one.
TableIsFull_early(num_rows) == num_rows + 1 >= TABLE_MAX_ROWS

\* lib.rs:252, the executor's capacity check.
TableIsFull(num_rows) == num_rows >= TABLE_MAX_ROWS

\* Mutant: the email's length left unchecked.
FieldsTooLong_user_only(user_id, email) == Len(user_id) > USERID_SIZE

\* lib.rs:260, the executor's field-length check (len() counts bytes).
FieldsTooLong(user_id, email) ==
    Len(user_id) > USERID_SIZE \/ Len(email) > EMAIL_SIZE

\* Mutant: the scan resumes after the first row.
ScanFirst_skips_first(num_rows) == IF num_rows > 0 THEN 1 ELSE 0

\* Mutant: the scan's range closed at num_rows.
ScanEnd_inclusive(num_rows) == num_rows + 1

\* lib.rs:245, `for i in 0..table.num_rows': the first row a scan decodes
\* and the one it stops before.
ScanFirst(num_rows) == 0

ScanEnd(num_rows) == num_rows

\* The select branch: decode rows i .. n-1 in order, each written to the
\* writer as it is decoded; `?' returns at the first Err, a panic ends it.
RECURSIVE select_rows(_, _, _, _, _, _)
select_rows(pager, f, i, n, out, io_ok) ==
    IF i >= n
    THEN [result |-> "Ok", panic |-> "none", io_failed |-> FALSE,
          pager |-> pager, out |-> out]
    ELSE With(get_row(pager, f, i, io_ok), LAMBDA r :
        IF r.err # "Ok"
        THEN [result |-> r.err, panic |-> r.panic,
              io_failed |-> r.io_failed, pager |-> r.pager, out |-> out]
        ELSE With(deserialize(RowSlice(r.pager, r.page_num, r.byte_offset)),
                  LAMBDA d :
            IF d.panic
            THEN [result |-> "Panic", panic |-> "decode",
                  io_failed |-> FALSE, pager |-> r.pager, out |-> out]
            ELSE select_rows(r.pager, f, i + 1, n, Append(out, d.row),
                             io_ok)))

\* The insert branch once the statement is well formed: build the row and
\* add it.
insert_row(params, pager, num_rows, f, io_ok) ==
    With(add_row(pager, num_rows, f,
                 Row(ParseU32(params[2]).value, params[3], params[4]), io_ok),
         LAMBDA a :
            [result |-> a.err, panic |-> a.panic, io_failed |-> a.io_failed,
             pager |-> a.pager, num_rows |-> a.num_rows, out |-> <<>>])

\* statement_command(input, table, writer): the result (Ok, a DbError, or
\* Panic), the table afterwards and what was written to the writer.
statement_command(input, pager, num_rows, f, io_ok) ==
    LET unchanged(result) ==
            [result |-> result, panic |-> "none", io_failed |-> FALSE,
             pager |-> pager, num_rows |-> num_rows, out |-> <<>>]
        params == input
    IN  IF InputStartsWith(input, S_select)
        THEN With(select_rows(pager, f, ScanFirst(num_rows), ScanEnd(num_rows),
                              <<>>, io_ok),
                  LAMBDA sel :
                    [result |-> sel.result, panic |-> sel.panic,
                     io_failed |-> sel.io_failed, pager |-> sel.pager,
                     num_rows |-> num_rows, out |-> sel.out])
        ELSE IF InputStartsWith(input, S_insert)
        THEN IF TableIsFull(num_rows) THEN unchanged("TableFull")
             ELSE IF Len(params) # 4 THEN unchanged("StatementSyntaxError")
             ELSE IF ~ParseU32(params[2]).ok THEN unchanged("ParsingError")
             ELSE IF FieldsTooLong(params[3], params[4])
             THEN unchanged("StatementSyntaxError")
             ELSE insert_row(params, pager, num_rows, f, io_ok)
        ELSE unchanged("StatementUnrecognized")

\* ------------------------------------------------------------------- state
VARIABLES
    file,       \* the backing file's bytes (it outlives every session)
    open,       \* a Table exists
    pager,      \* table.pager: [file_length, pages]
    num_rows,   \* table.num_rows
    last,       \* the last operation: [op, input, result, panic, io_failed]
    out,        \* what the last statement wrote to its writer (rows)
    log,        \* history: the rows appended with result Ok, in order
    sessLog,    \* history: those of them appended in the current session
    session,    \* history: how many times the file has been opened
    teardown,   \* history: the pages the last teardown wrote and skipped
    cpc,        \* codec harness: "idle", "input", "encoded", "decoded"
    crow,       \* codec harness: the row given to serialize
    cbuf,       \* codec harness: the ROW_SIZE-byte buffer
    cdec        \* codec harness: what serialize / deserialize returned

tableVars == <<file, open, pager, num_rows, last, out, log, sessLog, session,
               teardown>>
codecVars == <<cpc, crow, cbuf, cdec>>
vars == <<file, open, pager, num_rows, last, out, log, sessLog, session,
          teardown, cpc, crow, cbuf, cdec>>

\* ------------------------------------------------------------------ inputs
\* The ASCII text of a sequence of decimal digits.
Digits(ds) == [i \in 1..Len(ds) |-> 48 + ds[i]]

Tok_1 == Digits(<<1>>)
\* "4294967295", u32::MAX, and "4294967296"
Tok_u32max == Digits(<<4, 2, 9, 4, 9, 6, 7, 2, 9, 5>>)
Tok_overflow == Digits(<<4, 2, 9, 4, 9, 6, 7, 2, 9, 6>>)
\* "-1"
Tok_minus1 == <<45, 49>>

User_a == <<97>>
User_max == Rep(98, USERID_SIZE)
User_long == Rep(99, USERID_SIZE + 1)
\* "é", two bytes
Email_acute == <<195, 169>>
Email_max == Rep(100, EMAIL_SIZE)
Email_long == Rep(101, EMAIL_SIZE + 1)

InsertA == <<S_insert, Tok_1, User_a, Email_acute>>
InsertB == <<S_insert, Tok_u32max, User_max, Email_max>>

\* The well-formed inserts, the malformed ones, a select and a statement
\* that is neither.
Inputs ==
    { <<S_select>>,
      InsertA,
      InsertB,
      <<S_insert, Tok_1, User_long, Email_acute>>,
      <<S_insert, Tok_1, User_a, Email_long>>,
      <<S_insert, Tok_minus1, User_a, Email_acute>>,
      <<S_insert, Tok_overflow, User_long, Email_max>>,
      <<S_insert, Tok_1, User_a>>,
      <<S_delete>> }

\* The row an insert statement carries (history only).
RowOf(input) == Row(ParseU32(input[2]).value, input[3], input[4])

NoOp == [op |-> "none", input |-> <<>>, result |-> "Ok", panic |-> "none",
         io_failed |-> FALSE]

NoTeardown == [written |-> {}, skipped |-> {}]

\* The pages Drop for Table::drop calls flush on (lines 226-233), and of
\* them the resident ones, which flush writes, and the others, which it
\* skips (history only).
DropPages(n) ==
    {i \in 0..(n \div ROWS_PER_PAGE) :
        i < n \div ROWS_PER_PAGE \/ n % ROWS_PER_PAGE > 0}

TeardownOf(pgr, n) ==
    [written |-> {i \in DropPages(n) :
                    i < Len(pgr.pages) /\ Len(pgr.pages[i + 1]) # 0},
     skipped |-> {i \in DropPages(n) :
                    i < Len(pgr.pages) /\ Len(pgr.pages[i + 1]) = 0}]

\* A panic is unwinding through the owner of the table: nothing but the
\* table's drop runs after it.
Unwinding == last.result = "Panic"

\* ----------------------------------------------------------------- actions
TableInit ==
    /\ file = <<>>
    /\ open = FALSE
    /\ pager = NoPager
    /\ num_rows = 0
    /\ last = NoOp
    /\ out = <<>>
    /\ log = <<>>
    /\ sessLog = <<>>
    /\ session = 0
    /\ teardown = NoTeardown

CodecIdle ==
    /\ cpc = "idle"
    /\ crow = NoRow
    /\ cbuf = <<>>
    /\ cdec = [panic |-> FALSE, row |-> NoRow]

Init == TableInit /\ CodecIdle

\* Table::db_open(path) on the backing file.
DoOpen(io_ok) ==
    /\ ~open
    /\ session < MaxSessions
    /\ \E o \in {db_open(file, io_ok)} :
           /\ open' = (o.panic = "none")
           /\ pager' = o.pager
           /\ num_rows' = (IF o.panic = "none" THEN o.num_rows ELSE 0)
           /\ last' = [op |-> "open", input |-> <<>>,
                       result |-> (IF o.panic = "none" THEN "Ok" ELSE "Panic"),
                       panic |-> o.panic, io_failed |-> o.io_failed]
    /\ out' = <<>>
    /\ sessLog' = <<>>
    /\ session' = session + 1
    /\ UNCHANGED <<file, log, teardown>>
    /\ UNCHANGED codecVars

\* statement_command(input, &mut table, &mut writer).
DoStatement(input, io_ok) ==
    /\ open
    /\ ~Unwinding
    /\ \E r \in {statement_command(input, pager, num_rows, file, io_ok)} :
       \E appended \in {r.result = "Ok" /\ r.num_rows # num_rows} :
           /\ pager' = r.pager
           /\ num_rows' = r.num_rows
           /\ out' = r.out
           /\ last' = [op |-> "statement", input |-> input,
                       result |-> r.result, panic |-> r.panic,
                       io_failed |-> r.io_failed]
           /\ log' = (IF appended THEN Append(log, RowOf(input)) ELSE log)
           /\ sessLog' = (IF appended THEN Append(sessLog, RowOf(input))
                          ELSE sessLog)
    /\ UNCHANGED <<file, open, session, teardown>>
    /\ UNCHANGED codecVars

\* The table goes out of scope: Drop for Table, then the file is closed.
DoClose(io_ok) ==
    /\ open
    /\ \E d \in {drop(pager, num_rows, file, io_ok)} :
           /\ file' = d.file
           /\ last' = [op |-> "close", input |-> <<>>,
                       result |-> (IF d.panic = "none" THEN "Ok" ELSE "Panic"),
                       panic |-> d.panic, io_failed |-> d.io_failed]
    /\ open' = FALSE
    /\ pager' = NoPager
    /\ num_rows' = 0
    /\ out' = <<>>
    /\ teardown' = TeardownOf(pager, num_rows)
    /\ UNCHANGED <<log, sessLog, session>>
    /\ UNCHANGED codecVars

Open == DoOpen(TRUE)
Statement == \E input \in Inputs : DoStatement(input, TRUE)
Close == DoClose(TRUE)

Next == Open \/ Statement \/ Close

\* Sessions on one backing file, every I/O call succeeding.
Spec == Init /\ [][Next]_vars

\* Sessions in which an I/O call on the backing file may return an error
\* (io_ok = FALSE: the first one the operation makes does), under the
\* statements that reach the file: a select and a well-formed insert.
NextIO ==
    \E io_ok \in BOOLEAN :
        \/ DoOpen(io_ok)
        \/ \E input \in {<<S_select>>, InsertA} : DoStatement(input, io_ok)
        \/ DoClose(io_ok)

SpecIO == Init /\ [][NextIO]_vars

\* --------------------------------------------------------- the page store
\* The Pager on its own, driven as its owner may drive it: get any page
\* number, write through the buffer get handed back, flush any page.  The
\* file it is opened on is any file: empty, a partial page, whole pages, a
\* length that is no multiple of ROW_SIZE.
PatternFile(n) == [i \in 1..n |-> 1 + ((i * 7) % 250)]

PagerFiles ==
    { PatternFile(0), PatternFile(ROW_SIZE), PatternFile(PAGE_SIZE + 5),
      PatternFile(TABLE_MAX_PAGES * PAGE_SIZE) }

PagerPageNums == 0..(TABLE_MAX_PAGES + 1)

PagerFlushSizes == {0, ROW_SIZE, PAGE_SIZE}

PagerInit ==
    /\ file \in PagerFiles
    /\ open = FALSE
    /\ pager = Pager_open(file, TRUE).pager
    /\ num_rows = 0
    /\ last = NoOp
    /\ out = <<>>
    /\ log = <<>>
    /\ sessLog = <<>>
    /\ session = 0
    /\ teardown = NoTeardown
    /\ CodecIdle

PagerLast(op, page_num, r) ==
    [op |-> op, input |-> <<page_num>>,
     result |-> (IF r.panic = "none" THEN "Ok" ELSE "Panic"),
     panic |-> r.panic, io_failed |-> r.io_failed]

\* pager.get(page_num)
PagerGet(page_num) ==
    /\ ~Unwinding
    /\ \E g \in {Pager_get(pager, file, page_num, TRUE)} :
           /\ pager' = g.pager
           /\ last' = PagerLast("get", page_num, g)
    /\ UNCHANGED <<file, open, num_rows, out, log, sessLog, session,
                   teardown>>
    /\ UNCHANGED codecVars

\* A write of one byte through the buffer a get of a resident page hands
\* back (line 169).
PagerWrite(page_num, offset) ==
    /\ ~Unwinding
    /\ page_num < Len(pager.pages)
    /\ Len(pager.pages[page_num + 1]) # 0
    /\ pager' = [pager EXCEPT !.pages[page_num + 1][offset + 1] = 255]
    /\ last' = [op |-> "write", input |-> <<page_num>>, result |-> "Ok",
                panic |-> "none", io_failed |-> FALSE]
    /\ UNCHANGED <<file, open, num_rows, out, log, sessLog, session,
                   teardown>>
    /\ UNCHANGED codecVars

\* pager.flush(page_num, size)
PagerFlush(page_num, size) ==
    /\ ~Unwinding
    /\ \E w \in {Pager_flush(pager, file, page_num, size, TRUE)} :
           /\ file' = w.file
           /\ last' = [PagerLast("flush", page_num, w)
                           EXCEPT !.input = <<page_num, size>>]
    /\ UNCHANGED <<open, pager, num_rows, out, log, sessLog, session,
                   teardown>>
    /\ UNCHANGED codecVars

PagerNext ==
    \/ \E page_num \in PagerPageNums : PagerGet(page_num)
    \/ \E page_num \in PagerPageNums : PagerWrite(page_num, 0)
    \/ \E page_num \in PagerPageNums, size \in PagerFlushSizes :
          PagerFlush(page_num, size)

SpecPager == PagerInit /\ [][PagerNext]_vars

\* -------------------------------------------------------------- the codec
\* The codec on its own: serialize a row into a ROW_SIZE-byte slice, then
\* deserialize that slice.  The rows are the valid ones (user_id of at most
\* USERID_SIZE bytes, email of at most EMAIL_SIZE bytes, both UTF-8, any
\* u32 id); the slice starts zeroed (a fresh page) or holding stale bytes.
CodecIds ==
    { U32(0, 0), U32(0, 1), U32(0, 255), U32(0, 256), U32(0, 65535),
      U32(1, 0), U32(256, 0), U32(4660, 22136), U32(32768, 0),
      U32(65535, 65535) }

\* "", "a", "é", "€", and the longest text of one letter
CodecUsers ==
    { u \in {<<>>, <<97>>, <<195, 169>>, <<226, 130, 172>>,
              Rep(122, USERID_SIZE)} : Len(u) <= USERID_SIZE }

CodecEmails ==
    { e \in {<<>>, <<64>>, <<195, 169>>, <<226, 130, 172>>,
              Rep(120, EMAIL_SIZE)} : Len(e) <= EMAIL_SIZE }

CodecBuffers == { Rep(0, ROW_SIZE), Rep(255, ROW_SIZE) }

CodecInit ==
    /\ TableInit
    /\ cpc = "input"
    /\ crow \in { Row(id, u, e) : id \in CodecIds, u \in CodecUsers,
                                  e \in CodecEmails }
    /\ cbuf \in CodecBuffers
    /\ cdec = [panic |-> FALSE, row |-> NoRow]

\* row.serialize(&mut data)
Encode ==
    /\ cpc = "input"
    /\ \E s \in {serialize(crow, cbuf)} :
           /\ cbuf' = s.data
           /\ cdec' = [panic |-> s.panic, row |-> NoRow]
           /\ cpc' = IF s.panic THEN "panicked" ELSE "encoded"
    /\ UNCHANGED crow
    /\ UNCHANGED tableVars

\* Row::deserialize(&data)
Decode ==
    /\ cpc = "encoded"
    /\ cdec' = deserialize(cbuf)
    /\ cpc' = "decoded"
    /\ UNCHANGED <<crow, cbuf>>
    /\ UNCHANGED tableVars

CodecNext == Encode \/ Decode

SpecCodec == CodecInit /\ [][CodecNext]_vars

TypeOK ==
    /\ file \in Seq(Byte)
    /\ open \in BOOLEAN
    /\ num_rows \in Nat
    /\ session \in 0..MaxSessions

\* ------------------------------------------------------------- properties
IsSelect(l) == l.op = "statement" /\ InputStartsWith(l.input, S_select)
IsInsert(l) == l.op = "statement" /\ InputStartsWith(l.input, S_insert)

\* C1: in the first session on a new file, a scan after n successful appends
\* r0..r(n-1) succeeds and yields exactly those n rows in that order, for
\* every n up to TABLE_MAX_ROWS (duplicates kept).
C1_AppendThenScan ==
    (session = 1 /\ IsSelect(last))
        => /\ last.result = "Ok"
           /\ out = sessLog
           /\ Len(out) = num_rows

\* C1's case: a scan of a full table holding two different rows and a
\* duplicate.
C1_Witness ==
    /\ session = 1
    /\ IsSelect(last)
    /\ Len(out) = TABLE_MAX_PAGES * ROWS_PER_PAGE
    /\ out[1] # out[2]
    /\ out[1] = out[3]

\* C2: k rows appended in the first session, the table torn down, the file
\* reopened: a scan (before any further append) yields exactly those k rows
\* in their order.
C2_PersistenceRoundTrip ==
    (session = 2 /\ sessLog = <<>> /\ IsSelect(last))
        => /\ last.result = "Ok"
           /\ out = log
           /\ Len(out) = num_rows

\* C2's case: the reopened file held a full page and a partial one.
C2_Witness ==
    /\ session = 2
    /\ sessLog = <<>>
    /\ IsSelect(last)
    /\ Len(out) = ROWS_PER_PAGE + 1
    /\ out[1] # out[2]

\* C3: a well-formed insert succeeds and adds one row while num_rows is
\* below TABLE_MAX_PAGES * ROWS_PER_PAGE; every insert attempted at that
\* count fails with TableFull and leaves num_rows and every page (residency
\* and bytes) as they were.
C3_CapacityBoundary ==
    [][IsInsert(last') =>
          IF num_rows >= TABLE_MAX_PAGES * ROWS_PER_PAGE
          THEN /\ last'.result = "TableFull"
               /\ num_rows' = num_rows
               /\ pager' = pager
          ELSE last'.input \in {InsertA, InsertB}
                   => /\ last'.result = "Ok"
                      /\ num_rows' = num_rows + 1]_vars

\* C3's case: an insert refused on a full table.
C3_Witness ==
    /\ open
    /\ IsInsert(last)
    /\ last.result = "TableFull"
    /\ num_rows = TABLE_MAX_PAGES * ROWS_PER_PAGE

\* C4: for every valid row (any u32 id, user_id of at most USERID_SIZE
\* bytes, email of at most EMAIL_SIZE bytes, empty and maximal fields
\* included), serialize does not panic, and deserialize of the slice it
\* wrote returns a row equal to it in id, user_id and email.
C4_CodecRoundTrip ==
    /\ cpc # "panicked"
    /\ cpc = "decoded" => (~cdec.panic /\ cdec.row = crow)

\* C4's case: the maximal row, id u32::MAX, has been decoded.
C4_Witness ==
    /\ cpc = "decoded"
    /\ crow.id = U32(65535, 65535)
    /\ Len(crow.user_id) = USERID_SIZE
    /\ Len(crow.email) = EMAIL_SIZE

\* An insert of four tokens whose user id or email is over its maximum.
IsOversizedInsert(l) ==
    /\ IsInsert(l)
    /\ Len(l.input) = 4
    /\ (Len(l.input[3]) > USERID_SIZE \/ Len(l.input[4]) > EMAIL_SIZE)

\* C5, as claimed: every insert (of a u32 id) with a user id over
\* USERID_SIZE bytes or an email over EMAIL_SIZE bytes is rejected with the
\* syntax error, the table unchanged, and an insert with fields of exactly
\* the maximal lengths is accepted.
C5_OversizedIsSyntaxError ==
    [][/\ (IsOversizedInsert(last') /\ ParseU32(last'.input[2]).ok)
            => /\ last'.result = "StatementSyntaxError"
               /\ num_rows' = num_rows
               /\ pager' = pager
       /\ (IsInsert(last') /\ last'.input = InsertB)
            => last'.result = "Ok"]_vars

\* C5, amended: such an insert is always rejected with the table unchanged
\* (num_rows, residency and bytes), but with the error of the first check
\* it fails: TableFull on a full table, else the parse error when its id is
\* no u32, else the syntax error.  An insert with fields of exactly the
\* maximal lengths is accepted while the table is not full.
C5_OversizedIsRejected ==
    [][/\ IsOversizedInsert(last')
            => /\ num_rows' = num_rows
               /\ pager' = pager
               /\ last'.result =
                      IF num_rows >= TABLE_MAX_PAGES * ROWS_PER_PAGE
                      THEN "TableFull"
                      ELSE IF ~ParseU32(last'.input[2]).ok
                      THEN "ParsingError"
                      ELSE "StatementSyntaxError"
       /\ (IsInsert(last') /\ last'.input = InsertB
              /\ num_rows < TABLE_MAX_PAGES * ROWS_PER_PAGE)
            => /\ last'.result = "Ok"
               /\ num_rows' = num_rows + 1]_vars

\* C5's case: an insert with an email one byte too long was refused with
\* the syntax error on a table that holds rows.
C5_Witness ==
    /\ IsOversizedInsert(last)
    /\ Len(last.input[4]) = EMAIL_SIZE + 1
    /\ last.result = "StatementSyntaxError"
    /\ num_rows > 0

\* C6: num_rows never exceeds TABLE_MAX_PAGES * ROWS_PER_PAGE, through any
\* sequence of opens, statements and teardowns from a new file.
C6_NumRowsBounded == num_rows <= TABLE_MAX_PAGES * ROWS_PER_PAGE

\* C6's case: a file written at capacity has been reopened, and an insert
\* tried.
C6_Witness ==
    /\ session >= 2
    /\ sessLog = <<>>
    /\ IsInsert(last)
    /\ num_rows = TABLE_MAX_PAGES * ROWS_PER_PAGE

\* Page i is resident.
Resident(pgr, i) == Len(pgr.pages[i + 1]) # 0

\* The file length that n rows come to: whole pages, then the rows of the
\* partial page, no padding.
FileLenOf(n) ==
    (n \div ROWS_PER_PAGE) * PAGE_SIZE + (n % ROWS_PER_PAGE) * ROW_SIZE

\* C7: teardown writes every resident complete page whole, and of a resident
\* partial last page exactly (num_rows mod ROWS_PER_PAGE) * ROW_SIZE bytes;
\* the file then is FileLenOf(num_rows) bytes long, not padded to a page.
\* In the first session every page below the last row's is resident.
C7_TeardownFlush ==
    [][(open /\ last'.op = "close") =>
          LET full_pages == num_rows \div ROWS_PER_PAGE
              additional_rows == num_rows % ROWS_PER_PAGE
          IN  /\ \A i \in 0..(full_pages - 1) :
                    /\ session = 1 => Resident(pager, i)
                    /\ Resident(pager, i) =>
                         Slice(file', i * PAGE_SIZE, (i + 1) * PAGE_SIZE)
                             = pager.pages[i + 1]
              /\ additional_rows > 0 =>
                    /\ session = 1 => Resident(pager, full_pages)
                    /\ Resident(pager, full_pages) =>
                         Slice(file', full_pages * PAGE_SIZE,
                               full_pages * PAGE_SIZE
                                   + additional_rows * ROW_SIZE)
                             = Slice(pager.pages[full_pages + 1], 0,
                                     additional_rows * ROW_SIZE)
              /\ Len(file') = FileLenOf(num_rows)]_vars

\* C7's case: a table of one full page and one more row has been torn down,
\* and the file ends after that row.
C7_Witness ==
    /\ ~open
    /\ last.op = "close"
    /\ Len(log) = ROWS_PER_PAGE + 1
    /\ Len(file) = PAGE_SIZE + ROW_SIZE

\* C8: db_open sets num_rows to floor(len / PAGE_SIZE) * ROWS_PER_PAGE +
\* floor((len mod PAGE_SIZE) / ROW_SIZE) of the file's length, which is the
\* number of rows the sessions before appended.
C8_NumRowsRecovered ==
    (open /\ last.op = "open")
        => /\ num_rows = (Len(file) \div PAGE_SIZE) * ROWS_PER_PAGE
                         + (Len(file) % PAGE_SIZE) \div ROW_SIZE
           /\ num_rows = Len(log)

\* C8's case: a file of whole pages only has been reopened.
C8_Witness ==
    /\ open
    /\ last.op = "open"
    /\ num_rows = TABLE_MAX_PAGES * ROWS_PER_PAGE

\* What statement_command, db_open and drop hand their caller: Ok, one of
\* DbError's variants (lines 16-22; none of them carries an I/O error), or
\* a panic.
DbErrors ==
    {"MetaUnrecognized", "StatementUnrecognized", "StatementSyntaxError",
     "TableFull", "ParsingError"}

\* C9, as claimed: an I/O failure while opening, reading or writing the
\* backing file reaches the caller as an I/O error value, the operation not
\* ending any other way.
C9_IoErrorIsReturned ==
    last.io_failed => (last.panic = "none" /\ last.result = "IoError")

\* C9, amended: every operation ends Ok, with one of DbError's variants or
\* in a panic; of the variants, opening and teardown give none and the
\* storage layer under a statement only TableFull; and every I/O failure
\* (opening in db_open, reading in get, writing in flush) ends the
\* operation in the panic of expect(), never in an error value.
C9_IoFailurePanics ==
    /\ last.result \in {"Ok", "Panic"} \cup DbErrors
    /\ last.op \in {"open", "close"} => last.result \in {"Ok", "Panic"}
    /\ (last.op = "statement"
           /\ last.input \in {<<S_select>>, InsertA, InsertB})
         => last.result \in {"Ok", "Panic", "TableFull"}
    /\ last.io_failed <=> (last.result = "Panic" /\ last.panic = "io")
    /\ last.result = "Panic" <=> last.panic # "none"

\* C9's case: the read of a page failed under a select.
C9_Witness ==
    /\ IsSelect(last)
    /\ last.io_failed
    /\ num_rows > 0

\* C10: Pager::get of a page number at or above TABLE_MAX_PAGES ends in an
\* out-of-bounds panic (the panic! of line 146 above TABLE_MAX_PAGES, the
\* Vec's own bounds check of line 149 at TABLE_MAX_PAGES itself), with no
\* page materialized and no page buffer changed.
C10_GetOutOfBounds ==
    [][(last'.op = "get" /\ last'.input[1] >= TABLE_MAX_PAGES) =>
          /\ last'.result = "Panic"
          /\ last'.panic = IF last'.input[1] > TABLE_MAX_PAGES
                           THEN "page_oob" ELSE "index_oob"
          /\ pager' = pager]_vars

\* C10's case: get(TABLE_MAX_PAGES) has panicked on a pager holding a
\* resident, written page.
C10_Witness ==
    /\ last.op = "get"
    /\ last.input = <<TABLE_MAX_PAGES>>
    /\ last.result = "Panic"
    /\ Len(pager.pages[1]) = PAGE_SIZE
    /\ pager.pages[1][1] = 255

\* The page numbers of the table.
PageNums == 0..(TABLE_MAX_PAGES - 1)

\* What page i holds: its buffer once resident, and until then what the
\* file has of it, zero beyond the file's end.
PageView(pgr, f, i) ==
    IF Resident(pgr, i) THEN pgr.pages[i + 1]
    ELSE [k \in 1..PAGE_SIZE |->
             IF i * PAGE_SIZE + k <= Len(f) THEN f[i * PAGE_SIZE + k] ELSE 0]

\* C11: a scan changes neither num_rows nor the file nor a byte of what any
\* page holds; all it does to the table is make unloaded pages resident.
\* It starts from row 0 each time: it yields every row appended so far,
\* and a scan right after a scan yields the same sequence.
C11_ScanFrame ==
    [][IsSelect(last') =>
          /\ num_rows' = num_rows
          /\ file' = file
          /\ pager'.file_length = pager.file_length
          /\ \A i \in PageNums :
                /\ Resident(pager, i) => Resident(pager', i)
                /\ PageView(pager', file', i) = PageView(pager, file, i)
          /\ out' = log
          /\ IsSelect(last) => out' = out]_vars

\* C11's case: a scan of a reopened table has made both pages resident and
\* yielded the rows, the first of them not the second.
C11_Witness ==
    /\ IsSelect(last)
    /\ session >= 2
    /\ Len(out) > ROWS_PER_PAGE
    /\ out[1] # out[2]
    /\ \A i \in 0..1 : Resident(pager, i)

\* C12: whatever the sessions on the file were (appends, refused inserts,
\* scans, teardowns), a scan succeeds and yields exactly the rows appended
\* with success since the file was new, in their order: those of the
\* sessions before and those of this one.
C12_MultiSessionDurability ==
    IsSelect(last)
        => /\ last.result = "Ok"
           /\ out = log
           /\ Len(out) = num_rows
           /\ out = SubSeq(log, 1, Len(log) - Len(sessLog)) \o sessLog

\* C12's case: a scan in the third session yields a full table, the
\* teardown before it having skipped an unloaded page and written the
\* trailing page, which that session had extended.
C12_Witness ==
    /\ IsSelect(last)
    /\ session = 3
    /\ sessLog = <<>>
    /\ teardown.skipped # {}
    /\ teardown.written # {}
    /\ Len(out) = TABLE_MAX_PAGES * ROWS_PER_PAGE
    /\ out[1] # out[2]

\* C13: a resident page stays resident, PAGE_SIZE bytes long, and keeps its
\* bytes through every get and flush (of any page): only a write through
\* the buffer changes them, so a get of a resident page never loads it from
\* the file again.
C13_ResidentStaysResident ==
    [][\A i \in PageNums :
          Resident(pager, i) =>
              /\ Resident(pager', i)
              /\ Len(pager'.pages[i + 1]) = PAGE_SIZE
              /\ ~(last'.op = "write" /\ last'.input = <<i>>)
                    => pager'.pages[i + 1] = pager.pages[i + 1]]_vars

\* C13's case: a get of page 0 after a write into it, the file holding
\* another byte there: the written byte is still in the buffer.
C13_Witness ==
    /\ last.op = "get"
    /\ last.input = <<0>>
    /\ last.result = "Ok"
    /\ pager.pages[1][1] = 255
    /\ Len(file) >= PAGE_SIZE
    /\ file[1] # 255

\* ceil(n / d)
CeilDiv(n, d) == (n + d - 1) \div d

\* C14: the first get of an unloaded page p below TABLE_MAX_PAGES yields a
\* PAGE_SIZE-byte buffer.  If p < ceil(file_length / PAGE_SIZE), its first
\* min(PAGE_SIZE, file_length - p * PAGE_SIZE) bytes are the file's from
\* offset p * PAGE_SIZE and the rest are zero; else it is all zero and the
\* file is not read (an I/O failure could not make the get fail).
C14_FirstGetLoads ==
    [][(/\ last'.op = "get"
        /\ last'.input[1] < TABLE_MAX_PAGES
        /\ ~Resident(pager, last'.input[1])) =>
          LET p == last'.input[1]
              file_length == pager.file_length
              rest == file_length - p * PAGE_SIZE
              n == IF rest < PAGE_SIZE THEN rest ELSE PAGE_SIZE
              page == pager'.pages[p + 1]
          IN  /\ last'.result = "Ok"
              /\ file' = file
              /\ Len(page) = PAGE_SIZE
              /\ IF p < CeilDiv(file_length, PAGE_SIZE)
                 THEN \A k \in 1..PAGE_SIZE :
                         page[k] = IF k <= n THEN file[p * PAGE_SIZE + k]
                                   ELSE 0
                 ELSE /\ \A k \in 1..PAGE_SIZE : page[k] = 0
                      /\ Pager_get(pager, file, p, FALSE).panic = "none"]_vars

\* C14's case: page 1 of a file of one page and five bytes has been
\* loaded: five bytes of the file, then zeros.
C14_Witness ==
    /\ last.op = "get"
    /\ last.input = <<1>>
    /\ pager.file_length = PAGE_SIZE + 5
    /\ Len(file) = PAGE_SIZE + 5
    /\ pager.pages[2][5] = file[PAGE_SIZE + 5]
    /\ pager.pages[2][5] # 0
    /\ pager.pages[2][6] = 0

\* C15: flush(p, size) of a page that is not resident leaves the file as it
\* is, bytes and length; of a resident page it puts the first size bytes
\* of the buffer at the file's offset p * PAGE_SIZE and changes no byte the
\* file had outside [p * PAGE_SIZE, p * PAGE_SIZE + size).  The pager is
\* left alone in both cases.
C15_FlushFrame ==
    [][(last'.op = "flush" /\ last'.input[1] < TABLE_MAX_PAGES) =>
          LET p == last'.input[1]
              size == last'.input[2]
              off == p * PAGE_SIZE
          IN  /\ last'.result = "Ok"
              /\ pager' = pager
              /\ IF ~Resident(pager, p) \/ size = 0
                 THEN file' = file
                 ELSE /\ Len(file') = Max(Len(file), off + size)
                      /\ \A k \in 1..Len(file') :
                            file'[k] =
                                IF k > off /\ k <= off + size
                                THEN pager.pages[p + 1][k - off]
                                ELSE IF k <= Len(file) THEN file[k]
                                ELSE 0]_vars

\* C15's case: ROW_SIZE bytes of the written page 1 have been flushed into
\* a file of two pages, the byte after them being the file's own.
C15_Witness ==
    /\ last.op = "flush"
    /\ last.input = <<1, ROW_SIZE>>
    /\ Resident(pager, 1)
    /\ pager.pages[2][1] = 255
    /\ file[PAGE_SIZE + 1] = 255
    /\ Len(file) = 2 * PAGE_SIZE
    /\ file[PAGE_SIZE + ROW_SIZE + 1] = PatternFile(2 * PAGE_SIZE)[PAGE_SIZE + ROW_SIZE + 1]

\* C16: through the table the page store is never asked for a page at or
\* above TABLE_MAX_PAGES: no operation ends in an out-of-bounds panic, and
\* in every state of an open table the pages a scan would get, the page an
\* accepted insert would get and the pages teardown would flush are all
\* below TABLE_MAX_PAGES.
C16_OutOfBoundsUnreachable ==
    /\ last.panic \notin {"page_oob", "index_oob"}
    /\ open =>
          /\ \A i \in 0..(num_rows - 1) : i \div ROWS_PER_PAGE < TABLE_MAX_PAGES
          /\ num_rows < TABLE_MAX_PAGES * ROWS_PER_PAGE
                => num_rows \div ROWS_PER_PAGE < TABLE_MAX_PAGES
          /\ \A i \in DropPages(num_rows) : i < TABLE_MAX_PAGES

\* C16's case: a full table, every page of it resident, has been torn down
\* without a panic.
C16_Witness ==
    /\ last.op = "close"
    /\ last.result = "Ok"
    /\ session = 1
    /\ Len(log) = TABLE_MAX_PAGES * ROWS_PER_PAGE
    /\ teardown.written = PageNums

\* What page i of the table holds, open or not (a closed table's pages are
\* all on the file).
HeldPage(i) ==
    IF open THEN PageView(pager, file, i)
    ELSE PageView(Pager_open(file, TRUE).pager, file, i)

\* The ROW_SIZE bytes of row slot i.
SlotBytes(i) ==
    Slice(HeldPage(i \div ROWS_PER_PAGE), (i % ROWS_PER_PAGE) * ROW_SIZE,
          (i % ROWS_PER_PAGE) * ROW_SIZE + ROW_SIZE)

\* C17: a scan decodes the slots 0 .. num_rows - 1 and no other, and no
\* decode panics: at any time every slot below the number of rows appended
\* holds what serialize wrote there for that row (onto the zeros of a
\* fresh page), which deserialize accepts.
C17_DecodeWithinNumRows ==
    /\ last.panic # "decode"
    /\ open => num_rows = Len(log)
    /\ IsSelect(last) => (last.result = "Ok" /\ Len(out) = num_rows)
    /\ \A i \in 0..(Len(log) - 1) :
          /\ SlotBytes(i) = serialize(log[i + 1], Rep(0, ROW_SIZE)).data
          /\ ~deserialize(SlotBytes(i)).panic

\* C17's case: a scan of a full table decoded rows of an earlier session
\* and of this one.
C17_Witness ==
    /\ IsSelect(last)
    /\ session >= 2
    /\ sessLog # <<>>
    /\ Len(sessLog) < Len(log)
    /\ Len(out) = TABLE_MAX_PAGES * ROWS_PER_PAGE

\* C18: for every row index i below TABLE_MAX_PAGES * ROWS_PER_PAGE,
\* get_row(i) succeeds and hands back the ROW_SIZE bytes of page
\* floor(i / ROWS_PER_PAGE) from offset (i mod ROWS_PER_PAGE) * ROW_SIZE;
\* they lie within the page, and the slices of two different row indices
\* share no byte.
C18_RowAddressing ==
    open =>
        LET Rows == 0..(TABLE_MAX_PAGES * ROWS_PER_PAGE - 1)
            g == [i \in Rows |-> get_row(pager, file, i, TRUE)]
        IN  /\ \A i \in Rows :
                  /\ g[i].err = "Ok"
                  /\ g[i].page_num = i \div ROWS_PER_PAGE
                  /\ g[i].byte_offset = (i % ROWS_PER_PAGE) * ROW_SIZE
                  /\ g[i].byte_offset + ROW_SIZE <= PAGE_SIZE
                  /\ Len(g[i].pager.pages[g[i].page_num + 1]) = PAGE_SIZE
                  /\ Len(RowSlice(g[i].pager, g[i].page_num,
                                  g[i].byte_offset)) = ROW_SIZE
            /\ \A i, j \in Rows :
                  i # j =>
                      \/ g[i].page_num # g[j].page_num
                      \/ g[i].byte_offset + ROW_SIZE <= g[j].byte_offset
                      \/ g[j].byte_offset + ROW_SIZE <= g[i].byte_offset

\* C18's case: a scan has fetched every row of a full table, each one
\* other than the one before it.
C18_Witness ==
    /\ IsSelect(last)
    /\ last.result = "Ok"
    /\ Len(out) = TABLE_MAX_PAGES * ROWS_PER_PAGE
    /\ \A i \in 1..(Len(out) - 1) : out[i] # out[i + 1]

\* The number of rows of the table: num_rows while it is open, and what
\* db_open would find on the file while it is not.
RowCount == IF open THEN num_rows ELSE RowsInFile(Len(file))

\* C19: the number of rows never goes down, within a session or from one
\* to the next; an insert that succeeds adds exactly one and changes no
\* byte of any page outside slot num_rows; any other statement leaves
\* num_rows alone; and no step changes a byte of a slot below the number
\* of rows.
C19_AppendOnly ==
    [][/\ RowCount' >= RowCount
       /\ (IsInsert(last') /\ last'.result = "Ok") =>
             /\ num_rows' = num_rows + 1
             /\ \A p \in PageNums, k \in 1..PAGE_SIZE :
                   (\/ p # num_rows \div ROWS_PER_PAGE
                    \/ k <= (num_rows % ROWS_PER_PAGE) * ROW_SIZE
                    \/ k > (num_rows % ROWS_PER_PAGE) * ROW_SIZE + ROW_SIZE)
                       => HeldPage(p)'[k] = HeldPage(p)[k]
       /\ (last'.op = "statement"
              /\ ~(IsInsert(last') /\ last'.result = "Ok"))
             => num_rows' = num_rows
       /\ \A i \in 0..(RowCount - 1) : SlotBytes(i)' = SlotBytes(i)]_vars

\* C19's case: the last slot of the table has been filled in a later
\* session than the others.
C19_Witness ==
    /\ IsInsert(last)
    /\ last.result = "Ok"
    /\ session >= 2
    /\ Len(sessLog) = 1
    /\ num_rows = TABLE_MAX_PAGES * ROWS_PER_PAGE

\* C20: the teardown of a session in which no insert succeeded leaves the
\* file as it was, bytes and length, whatever pages the session's scans
\* made resident.
C20_ReadOnlySessionKeepsFile ==
    [][(open /\ last'.op = "close" /\ sessLog = <<>>) =>
          /\ file' = file
          /\ Len(file') = Len(file)
          /\ last'.result = "Ok"]_vars

\* C20's case: a later session without an append has been torn down, its
\* teardown writing a full page and the partial one after it.
C20_Witness ==
    /\ ~open
    /\ last.op = "close"
    /\ session >= 2
    /\ sessLog = <<>>
    /\ Len(log) = ROWS_PER_PAGE + 1
    /\ teardown.written = {0, 1}

=============================================================================
